---------------------------- MODULE Spec2Model ----------------------------
(***************************************************************************)
(* Model of the Khmer text extraction programs:                            *)
(*   - the PDF parser (detect_pdf_type, parse_khmer_text_native,           *)
(*     parse_khmer_text_scanned, parse_pdf, main),                         *)
(*   - the image recognizer (preprocess_image, extract_text_from_image,    *)
(*     parse_image, main),                                                 *)
(*   - the text normalization both of them apply to extraction output.     *)
(*                                                                         *)
(* A text is a sequence of characters.  The external collaborators (the    *)
(* PDF text-layer reader, the rasterizer, the OCR engine, the imaging      *)
(* library, the file system) are the environment: what each of their calls *)
(* returns or raises is fixed by the document / image chosen in Init.      *)
(***************************************************************************)
EXTENDS Integers, Sequences, FiniteSets, TLC

VARIABLES
    prog,        \* which program runs: "pdf" | "image" | "normalize"
    doc,         \* the input PDF as the collaborators see it
    img,         \* the input image as the collaborators see it
    pc,          \* position of the running program
    pdf_type,    \* parse_pdf's local pdf_type
    extracts,    \* number of page.extract_text() calls detect_pdf_type made
    native_ret,  \* outcome of the parse_khmer_text_native call
    ocr_ret,     \* outcome of the OCR call (parse_khmer_text_scanned / extract_text_from_image)
    ret,         \* what parse_pdf / parse_image handed to main (extracted_text)
    calls,       \* the functions called so far, in call order
    steps,       \* the preprocessing steps preprocess_image completed, in order
    exit_code,   \* process exit code, -1 while running
    out_file,    \* the output file
    raw,         \* normalizer input
    once,        \* Normalize(raw)
    twice        \* Normalize(Normalize(raw))

vars == << prog, doc, img, pc, pdf_type, extracts, native_ret, ocr_ret, ret,
           calls, steps, exit_code, out_file, raw, once, twice >>

-----------------------------------------------------------------------------
(* Bounds *)

\* longest text fed to the normalizer on its own
MaxLen == 3

\* most pages a document has
MaxPages == 2

-----------------------------------------------------------------------------
(* Texts *)

\* Characters: "k" a plain letter, "e" a base letter (U+0065), "m" a combining
\* mark (U+0301), "E" their canonical composite (U+00E9), and two whitespace
\* characters.
Whitespace == { " ", "\n" }

Chars == { "k", "e", "m", "E" } \cup Whitespace

TextsUpTo(n) == UNION { [1..l -> Chars] : l \in 0..n }

\* The texts a single page (or a single OCR call) yields in this model: no
\* text, blank text, text needing composition, plain text, text with
\* surrounding whitespace, text with a whitespace run inside.
PageTexts ==
    { << >>, << " " >>, << "e", "m" >>, << "e" >>, << " ", "m", "\n" >>,
      << "k", " ", "\n", "k" >> }

\* str.strip(): leading and trailing whitespace removed
RECURSIVE LStrip(_)
LStrip(s) ==
    IF s # << >> /\ Head(s) \in Whitespace THEN LStrip(Tail(s)) ELSE s

RECURSIVE RStrip(_)
RStrip(s) ==
    IF s # << >> /\ s[Len(s)] \in Whitespace
    THEN RStrip(SubSeq(s, 1, Len(s) - 1))
    ELSE s

Strip(s) == RStrip(LStrip(s))

\* str.split() with no separator: the maximal runs of non-whitespace
RECURSIVE SplitFrom(_, _, _, _)
SplitFrom(s, i, cur, acc) ==
    IF i > Len(s)
    THEN IF cur = << >> THEN acc ELSE Append(acc, cur)
    ELSE IF s[i] \in Whitespace
         THEN SplitFrom(s, i + 1, << >>,
                        IF cur = << >> THEN acc ELSE Append(acc, cur))
         ELSE SplitFrom(s, i + 1, Append(cur, s[i]), acc)

Split(s) == SplitFrom(s, 1, << >>, << >>)

\* sep.join(parts)
RECURSIVE Join(_, _)
Join(sep, parts) ==
    IF parts = << >> THEN << >>
    ELSE IF Len(parts) = 1 THEN parts[1]
    ELSE parts[1] \o sep \o Join(sep, Tail(parts))

\* unicodedata.normalize('NFC', s): canonical decomposition, then canonical
\* composition of a base letter with the mark that follows it
RECURSIVE Decompose(_)
Decompose(s) ==
    IF s = << >> THEN << >>
    ELSE (IF Head(s) = "E" THEN << "e", "m" >> ELSE << Head(s) >>)
         \o Decompose(Tail(s))

RECURSIVE Compose(_)
Compose(s) ==
    IF Len(s) < 2 THEN s
    ELSE IF s[1] = "e" /\ s[2] = "m"
         THEN << "E" >> \o Compose(SubSeq(s, 3, Len(s)))
         ELSE << s[1] >> \o Compose(Tail(s))

NFC(s) == Compose(Decompose(s))

\* the normalization with the whitespace collapsing left out
NormalizeNoCollapse(s) == NFC(s)

\* unicodedata.normalize('NFC', ' '.join(text.split()))
Normalize(s) == NFC(Join(<< " " >>, Split(s)))

-----------------------------------------------------------------------------
(* Values *)

NoText == << >>

Range(f) == { f[i] : i \in DOMAIN f }

\* Outcome of a call: a returned text, a returned None, or a raised exception.
\* "pending" stands for a call that has not happened.
Pending == [kind |-> "pending", text |-> NoText, err |-> "-"]
Text(t) == [kind |-> "text", text |-> t, err |-> "-"]
None == [kind |-> "none", text |-> NoText, err |-> "-"]
Raise(e) == [kind |-> "raise", text |-> NoText, err |-> e]

NoFile == [written |-> FALSE, text |-> NoText]

NoDoc == [exists |-> FALSE, open_raises |-> TRUE, convert_raises |-> TRUE,
          pages |-> << >>, scans |-> << >>]

NoImg == [exists |-> FALSE, fail_at |-> "open", scan |-> Raise("OSError")]

-----------------------------------------------------------------------------
(* Inputs *)

\* What one page.extract_text() call, or one pytesseract.image_to_string()
\* call, does: it returns a text (None and '' are both the empty text) or
\* raises.
Yields(t) == [raises |-> FALSE, text |-> t]
Fails == [raises |-> TRUE, text |-> NoText]

PageOutcomes == { Yields(t) : t \in PageTexts } \cup { Fails }

\* A PDF file that exists: whether pdfplumber.open raises on it, whether
\* convert_from_path raises on it, and per page what the text-layer reader
\* and the OCR engine do.
Docs ==
    UNION { [exists : { TRUE }, open_raises : BOOLEAN, convert_raises : BOOLEAN,
             pages : [1..n -> PageOutcomes], scans : [1..n -> PageOutcomes]]
            : n \in 1..MaxPages }

\* The steps of preprocess_image, in order
PreprocessSteps == << "open", "grayscale", "contrast", "threshold", "median" >>

StepNames == { PreprocessSteps[i] : i \in DOMAIN PreprocessSteps }

\* An image file that exists: the preprocessing step that raises ("-" for
\* none) and what the OCR engine does with the preprocessed image.
Imgs ==
    [exists : { TRUE }, fail_at : StepNames \cup { "-" },
     scan : { Text(t) : t \in PageTexts } \cup { Raise("TesseractError") }]

-----------------------------------------------------------------------------
(* PDF parser: the functions *)

\* detect_pdf_type with no short-circuit: every page is read
RECURSIVE DetectLoopAll(_, _, _)
DetectLoopAll(pages, i, found) ==
    IF i > Len(pages)
    THEN [type |-> IF found THEN "native" ELSE "scanned", extracts |-> i - 1]
    ELSE IF pages[i].raises
         THEN [type |-> "scanned", extracts |-> i]
         ELSE DetectLoopAll(pages, i + 1, found \/ pages[i].text # NoText)

detect_pdf_type_all(d) ==
    IF d.open_raises
    THEN [type |-> "scanned", extracts |-> 0]
    ELSE DetectLoopAll(d.pages, 1, FALSE)

\* detect_pdf_type's loop from page i on
RECURSIVE DetectLoop(_, _)
DetectLoop(pages, i) ==
    IF i > Len(pages)
    THEN [type |-> "scanned", extracts |-> i - 1]
    ELSE IF pages[i].raises
         THEN [type |-> "scanned", extracts |-> i]
         ELSE IF pages[i].text # NoText
              THEN [type |-> "native", extracts |-> i]
              ELSE DetectLoop(pages, i + 1)

\* detect_pdf_type with the except clause left out: an error propagates
detect_pdf_type_raising(d) ==
    IF d.open_raises
    THEN [type |-> "raise", extracts |-> 0]
    ELSE LET r == DetectLoop(d.pages, 1)
         IN  IF r.extracts > 0 /\ d.pages[r.extracts].raises
             THEN [type |-> "raise", extracts |-> r.extracts]
             ELSE r

detect_pdf_type(d) ==
    IF d.open_raises
    THEN [type |-> "scanned", extracts |-> 0]
    ELSE DetectLoop(d.pages, 1)

\* parse_khmer_text_native's loop from page i on; extracted_text so far
RECURSIVE NativeLoop(_, _, _)
NativeLoop(pages, i, extracted_text) ==
    IF i > Len(pages)
    THEN LET full_text == Join(<< "\n" >>, extracted_text)
         IN  IF Strip(full_text) = NoText
             THEN Raise("ValueError")
             ELSE Text(Normalize(full_text))
    ELSE IF pages[i].raises
         THEN Raise("Exception")
         ELSE NativeLoop(pages, i + 1,
                         IF pages[i].text # NoText
                         THEN Append(extracted_text, pages[i].text)
                         ELSE extracted_text)

\* parse_khmer_text_native with the emptiness test left out
parse_khmer_text_native_lenient(d) ==
    LET r == IF d.open_raises THEN Raise("Exception")
             ELSE NativeLoop(d.pages, 1, << >>)
    IN  IF r = Raise("ValueError") THEN Text(NoText) ELSE r

\* parse_khmer_text_native with the pages taken last to first
parse_khmer_text_native_reversed(d) ==
    IF d.open_raises
    THEN Raise("Exception")
    ELSE NativeLoop([i \in 1..Len(d.pages) |-> d.pages[Len(d.pages) + 1 - i]],
                    1, << >>)

parse_khmer_text_native(d) ==
    IF d.open_raises
    THEN Raise("Exception")
    ELSE NativeLoop(d.pages, 1, << >>)

\* parse_khmer_text_scanned's loop from page i on; extracted_text so far
RECURSIVE ScannedLoop(_, _, _)
ScannedLoop(scans, i, extracted_text) ==
    IF i > Len(scans)
    THEN Text(Normalize(Join(<< "\n" >>, extracted_text)))
    ELSE IF scans[i].raises
         THEN Raise("Exception")
         ELSE ScannedLoop(scans, i + 1, Append(extracted_text, scans[i].text))

\* parse_khmer_text_scanned with native's emptiness test added
parse_khmer_text_scanned_strict(d) ==
    LET r == IF d.convert_raises THEN Raise("Exception")
             ELSE ScannedLoop(d.scans, 1, << >>)
    IN  IF r = Text(NoText) THEN Raise("ValueError") ELSE r

parse_khmer_text_scanned(d) ==
    IF d.convert_raises
    THEN Raise("Exception")
    ELSE ScannedLoop(d.scans, 1, << >>)

-----------------------------------------------------------------------------
(* PDF parser: main and parse_pdf *)

D == "detect_pdf_type"
N == "parse_khmer_text_native"
S == "parse_khmer_text_scanned"
P == "preprocess_image"
X == "extract_text_from_image"

\* main up to the os.path.isfile test
PdfMain_CheckInput ==
    /\ prog = "pdf" /\ pc = "main"
    /\ IF ~doc.exists
       THEN pc' = "exit" /\ exit_code' = 1
       ELSE pc' = "detect" /\ UNCHANGED exit_code
    /\ UNCHANGED << prog, doc, img, pdf_type, extracts, native_ret, ocr_ret, ret,
                    calls, steps, out_file, raw, once, twice >>

\* parse_pdf: pdf_type = detect_pdf_type(pdf_path) and the branch on it
Detect ==
    /\ prog = "pdf" /\ pc = "detect"
    /\ LET r == detect_pdf_type(doc)
       IN  /\ pdf_type' = r.type
           /\ extracts' = r.extracts
           /\ calls' = Append(calls, D)
           /\ IF r.type = "raise"
              THEN pc' = "after" /\ ret' = Raise("Exception")
              ELSE IF r.type = "native"
                   THEN pc' = "native" /\ UNCHANGED ret
                   ELSE IF r.type = "scanned"
                        THEN pc' = "scanned" /\ UNCHANGED ret
                        ELSE pc' = "after" /\ ret' = None
    /\ UNCHANGED << prog, doc, img, native_ret, ocr_ret, steps, exit_code,
                    out_file, raw, once, twice >>

\* parse_pdf, native branch: the outer try
TryNative ==
    /\ prog = "pdf" /\ pc = "native"
    /\ LET r == parse_khmer_text_native(doc)
       IN  /\ native_ret' = r
           /\ calls' = Append(calls, N)
           /\ IF r.kind = "text"
              THEN pc' = "after" /\ ret' = r
              ELSE pc' = "fallback" /\ UNCHANGED ret
    /\ UNCHANGED << prog, doc, img, pdf_type, extracts, ocr_ret, steps, exit_code,
                    out_file, raw, once, twice >>

\* the fallback left out: a failed native extraction is the end
FallbackGivesUp ==
    /\ prog = "pdf" /\ pc = "fallback"
    /\ ret' = None
    /\ pc' = "after"
    /\ UNCHANGED << prog, doc, img, pdf_type, extracts, native_ret, ocr_ret, calls,
                    steps, exit_code, out_file, raw, once, twice >>

\* parse_pdf, native branch: the except clause, falling back to OCR
FallbackOcr ==
    /\ prog = "pdf" /\ pc = "fallback"
    /\ LET r == parse_khmer_text_scanned(doc)
       IN  /\ ocr_ret' = r
           /\ calls' = Append(calls, S)
           /\ ret' = IF r.kind = "text" THEN r ELSE None
    /\ pc' = "after"
    /\ UNCHANGED << prog, doc, img, pdf_type, extracts, native_ret, steps,
                    exit_code, out_file, raw, once, twice >>

\* a second fallback direction: a failed OCR of a scanned document tries
\* native extraction
ScannedOcrThenNative ==
    /\ prog = "pdf" /\ pc = "scanned"
    /\ LET r == parse_khmer_text_scanned(doc)
           n == parse_khmer_text_native(doc)
       IN  /\ ocr_ret' = r
           /\ IF r.kind = "text"
              THEN /\ calls' = Append(calls, S)
                   /\ ret' = r
                   /\ UNCHANGED native_ret
              ELSE /\ calls' = calls \o << S, N >>
                   /\ native_ret' = n
                   /\ ret' = IF n.kind = "text" THEN n ELSE None
    /\ pc' = "after"
    /\ UNCHANGED << prog, doc, img, pdf_type, extracts, steps, exit_code,
                    out_file, raw, once, twice >>

\* parse_pdf, scanned branch
ScannedOcr ==
    /\ prog = "pdf" /\ pc = "scanned"
    /\ LET r == parse_khmer_text_scanned(doc)
       IN  /\ ocr_ret' = r
           /\ calls' = Append(calls, S)
           /\ ret' = IF r.kind = "text" THEN r ELSE None
    /\ pc' = "after"
    /\ UNCHANGED << prog, doc, img, pdf_type, extracts, native_ret, steps,
                    exit_code, out_file, raw, once, twice >>

\* main's test written "is not None": an empty text is written out
PdfMain_FinishNotNone ==
    /\ prog = "pdf" /\ pc = "after"
    /\ pc' = "exit"
    /\ IF ret.kind = "text"
       THEN out_file' = [written |-> TRUE, text |-> ret.text] /\ exit_code' = 0
       ELSE exit_code' = 1 /\ UNCHANGED out_file
    /\ UNCHANGED << prog, doc, img, pdf_type, extracts, native_ret, ocr_ret, ret,
                    calls, steps, raw, once, twice >>

\* main after parse_pdf returned: write the text, or exit 1
PdfMain_Finish ==
    /\ prog = "pdf" /\ pc = "after"
    /\ pc' = "exit"
    /\ IF ret.kind = "text" /\ ret.text # NoText
       THEN \E write_ok \in BOOLEAN :
                IF write_ok
                THEN /\ out_file' = [written |-> TRUE, text |-> ret.text]
                     /\ exit_code' = 0
                ELSE exit_code' = 1 /\ UNCHANGED out_file
       ELSE exit_code' = 1 /\ UNCHANGED out_file
    /\ UNCHANGED << prog, doc, img, pdf_type, extracts, native_ret, ocr_ret, ret,
                    calls, steps, raw, once, twice >>

-----------------------------------------------------------------------------
(* Image recognizer *)

\* preprocess_image from step i on; the steps done so far
RECURSIVE PreprocessFrom(_, _, _)
PreprocessFrom(im, i, done) ==
    IF i > Len(PreprocessSteps)
    THEN [raises |-> FALSE, steps |-> done]
    ELSE IF PreprocessSteps[i] = im.fail_at
         THEN [raises |-> TRUE, steps |-> done]
         ELSE PreprocessFrom(im, i + 1, Append(done, PreprocessSteps[i]))

preprocess_image(im) == PreprocessFrom(im, 1, << >>)

extract_text_from_image(im) ==
    IF im.scan.kind = "raise"
    THEN Raise("Exception")
    ELSE Text(Normalize(im.scan.text))

\* main up to the os.path.isfile test
ImageMain_CheckInput ==
    /\ prog = "image" /\ pc = "main"
    /\ IF ~img.exists
       THEN pc' = "exit" /\ exit_code' = 1
       ELSE pc' = "preprocess" /\ UNCHANGED exit_code
    /\ UNCHANGED << prog, doc, img, pdf_type, extracts, native_ret, ocr_ret, ret,
                    calls, steps, out_file, raw, once, twice >>

\* a failed preprocessing skipped over: OCR runs on the image as it is
PreprocessOrSkip ==
    /\ prog = "image" /\ pc = "preprocess"
    /\ steps' = preprocess_image(img).steps
    /\ calls' = Append(calls, P)
    /\ pc' = "image_ocr"
    /\ UNCHANGED << prog, doc, img, pdf_type, extracts, native_ret, ocr_ret, ret,
                    exit_code, out_file, raw, once, twice >>

\* parse_image: preprocessed_image = preprocess_image(image_path)
Preprocess ==
    /\ prog = "image" /\ pc = "preprocess"
    /\ LET r == preprocess_image(img)
       IN  /\ steps' = r.steps
           /\ calls' = Append(calls, P)
           /\ IF r.raises
              THEN pc' = "after" /\ ret' = None
              ELSE pc' = "image_ocr" /\ UNCHANGED ret
    /\ UNCHANGED << prog, doc, img, pdf_type, extracts, native_ret, ocr_ret,
                    exit_code, out_file, raw, once, twice >>

\* parse_image: extracted_text = extract_text_from_image(preprocessed_image)
ExtractFromImage ==
    /\ prog = "image" /\ pc = "image_ocr"
    /\ LET r == extract_text_from_image(img)
       IN  /\ ocr_ret' = r
           /\ calls' = Append(calls, X)
           /\ ret' = IF r.kind = "text" THEN r ELSE None
    /\ pc' = "after"
    /\ UNCHANGED << prog, doc, img, pdf_type, extracts, native_ret, steps,
                    exit_code, out_file, raw, once, twice >>

\* main after parse_image returned: write the text, or exit 1
ImageMain_Finish ==
    /\ prog = "image" /\ pc = "after"
    /\ pc' = "exit"
    /\ IF ret.kind = "text" /\ ret.text # NoText
       THEN \E write_ok \in BOOLEAN :
                IF write_ok
                THEN /\ out_file' = [written |-> TRUE, text |-> ret.text]
                     /\ exit_code' = 0
                ELSE exit_code' = 1 /\ UNCHANGED out_file
       ELSE exit_code' = 1 /\ UNCHANGED out_file
    /\ UNCHANGED << prog, doc, img, pdf_type, extracts, native_ret, ocr_ret, ret,
                    calls, steps, raw, once, twice >>

-----------------------------------------------------------------------------
(* The two programs *)

Init ==
    /\ prog \in { "pdf", "image" }
    /\ doc \in (IF prog = "pdf" THEN Docs \cup { NoDoc } ELSE { NoDoc })
    /\ img \in (IF prog = "image" THEN Imgs \cup { NoImg } ELSE { NoImg })
    /\ pc = "main"
    /\ pdf_type = "-" /\ extracts = 0
    /\ native_ret = Pending /\ ocr_ret = Pending /\ ret = Pending
    /\ calls = << >> /\ steps = << >>
    /\ exit_code = -1 /\ out_file = NoFile
    /\ raw = NoText /\ once = NoText /\ twice = NoText

Next ==
    \/ PdfMain_CheckInput
    \/ Detect
    \/ TryNative
    \/ FallbackOcr
    \/ ScannedOcr
    \/ PdfMain_Finish
    \/ ImageMain_CheckInput
    \/ Preprocess
    \/ ExtractFromImage
    \/ ImageMain_Finish

Spec == Init /\ [][Next]_vars

-----------------------------------------------------------------------------
(* The normalizer on its own *)

InitNormalize ==
    /\ prog = "normalize"
    /\ doc = NoDoc /\ img = NoImg
    /\ pc = "raw"
    /\ pdf_type = "-" /\ extracts = 0
    /\ native_ret = Pending /\ ocr_ret = Pending /\ ret = Pending
    /\ calls = << >> /\ steps = << >>
    /\ exit_code = -1 /\ out_file = NoFile
    /\ raw \in TextsUpTo(MaxLen)
    /\ once = NoText /\ twice = NoText

NormalizeOnce ==
    /\ prog = "normalize" /\ pc = "raw"
    /\ once' = Normalize(raw)
    /\ pc' = "once"
    /\ UNCHANGED << prog, doc, img, pdf_type, extracts, native_ret, ocr_ret, ret,
                    calls, steps, exit_code, out_file, raw, twice >>

NormalizeTwice ==
    /\ prog = "normalize" /\ pc = "once"
    /\ twice' = Normalize(once)
    /\ pc' = "twice"
    /\ UNCHANGED << prog, doc, img, pdf_type, extracts, native_ret, ocr_ret, ret,
                    calls, steps, exit_code, out_file, raw, once >>

NextNormalize == NormalizeOnce \/ NormalizeTwice

SpecNormalize == InitNormalize /\ [][NextNormalize]_vars

\* C7: normalizing a normalized text changes nothing, and a normalized text
\* has no leading or trailing whitespace and no two adjacent whitespace
\* characters.
NoWhitespaceRun(s) ==
    \A i \in 1..(Len(s) - 1) : ~(s[i] \in Whitespace /\ s[i + 1] \in Whitespace)

Trimmed(s) == s = << >> \/ (s[1] \notin Whitespace /\ s[Len(s)] \notin Whitespace)

NormalizeIdempotent ==
    /\ pc \in { "once", "twice" } => Trimmed(once) /\ NoWhitespaceRun(once)
    /\ pc = "twice" => twice = once

NormalizeIdempotentWitness ==
    /\ pc = "twice"
    /\ Len(raw) = MaxLen
    /\ raw[1] \in Whitespace
    /\ once # raw
    /\ once # NoText

-----------------------------------------------------------------------------
(* Properties of the two programs *)

Returned == pc \in { "after", "exit" }

PageRaises(d) == \E i \in 1..Len(d.pages) : d.pages[i].raises

ScanRaises(d) == \E i \in 1..Len(d.scans) : d.scans[i].raises

IsText(t) == t # NoText

PageTextsOf(d) == [i \in 1..Len(d.pages) |-> d.pages[i].text]

ScanTextsOf(d) == [i \in 1..Len(d.scans) |-> d.scans[i].text]

\* the words of a text, marks taken apart from their letters
Words(t) == Split(Decompose(t))

RECURSIVE Flatten(_)
Flatten(ss) == IF ss = << >> THEN << >> ELSE Head(ss) \o Flatten(Tail(ss))

WordsOfAll(texts) == Flatten([i \in 1..Len(texts) |-> Words(texts[i])])

\* C1: when a document classified native fails native extraction, parse_pdf
\* has called the OCR strategy on that document and returns exactly the text
\* the OCR strategy returned.
FallbackCorrect ==
    (prog = "pdf" /\ Returned /\ pdf_type = "native" /\ native_ret.kind = "raise")
    => /\ calls = << D, N, S >>
       /\ ocr_ret = parse_khmer_text_scanned(doc)
       /\ ocr_ret.kind = "text" => ret = ocr_ret

FallbackCorrectWitness ==
    /\ prog = "pdf" /\ pc = "after"
    /\ pdf_type = "native"
    /\ native_ret = Raise("ValueError")
    /\ ocr_ret.kind = "text" /\ ocr_ret.text # NoText
    /\ ret = ocr_ret

\* C2: parse_pdf always comes back with a text or None, never an exception,
\* whatever detection, native extraction, rasterization and OCR do; when the
\* last strategy tried failed it comes back with None.
NeverRaises ==
    prog = "pdf" =>
        /\ Returned /\ doc.exists => ret.kind \in { "text", "none" }
        /\ Returned /\ ocr_ret.kind = "raise" => ret = None

NeverRaisesWitness ==
    /\ prog = "pdf" /\ pc = "after"
    /\ ~doc.open_raises /\ doc.pages[1].raises
    /\ pdf_type = "scanned"
    /\ ocr_ret.kind = "raise"
    /\ ret = None

\* C3, as claimed: every returned text is non-empty after trimming.
ReturnedTextNonEmpty ==
    /\ native_ret.kind = "text" => Strip(native_ret.text) # NoText
    /\ ocr_ret.kind = "text" => Strip(ocr_ret.text) # NoText
    /\ ret.kind = "text" => Strip(ret.text) # NoText

\* C3, amended: a text returned by parse_khmer_text_native is non-empty after
\* trimming; a text returned by the OCR strategies, parse_pdf or parse_image
\* has no leading or trailing whitespace but may be empty; only a non-empty
\* text is written to the output file.
ReturnedTextTrimmed ==
    /\ native_ret.kind = "text" => Strip(native_ret.text) # NoText
    /\ ocr_ret.kind = "text" => Strip(ocr_ret.text) = ocr_ret.text
    /\ ret.kind = "text" => Strip(ret.text) = ret.text
    /\ out_file.written => Strip(out_file.text) # NoText

ReturnedTextTrimmedWitness ==
    /\ prog = "pdf" /\ pc = "exit"
    /\ \A i \in 1..Len(doc.scans) : doc.scans[i] = Yields(NoText)
    /\ ocr_ret = Text(NoText)
    /\ ret = Text(NoText)
    /\ exit_code = 1

\* C4: native extraction over a document whose pages all yield blank text
\* fails with the no-text error; the OCR strategy fails exactly when
\* rasterization or an OCR call raises, never because its output is empty.
EmptyResultPolicy ==
    prog = "pdf" =>
        /\ (/\ N \in Range(calls)
            /\ ~doc.open_raises /\ ~PageRaises(doc)
            /\ \A i \in 1..Len(doc.pages) : Strip(doc.pages[i].text) = NoText)
           => native_ret = Raise("ValueError")
        /\ S \in Range(calls)
           => (ocr_ret.kind = "raise" <=> (doc.convert_raises \/ ScanRaises(doc)))
        /\ S \in Range(calls) /\ ocr_ret.kind # "raise" => ocr_ret.kind = "text"

EmptyResultPolicyWitness ==
    /\ prog = "pdf" /\ pc = "after"
    /\ native_ret = Raise("ValueError")
    /\ \A i \in 1..Len(doc.scans) : Strip(doc.scans[i].text) = NoText
    /\ ocr_ret = Text(NoText)

\* C5: detection answers native exactly when a page with text comes before
\* any failure, has then read no page after the first page with text, answers
\* scanned otherwise, and never raises.
FirstTextPage(d) ==
    IF \E i \in 1..Len(d.pages) : d.pages[i].text # NoText
    THEN CHOOSE i \in 1..Len(d.pages) :
            /\ d.pages[i].text # NoText
            /\ \A j \in 1..(i - 1) : d.pages[j].text = NoText
    ELSE 0

DetectShortCircuit ==
    (prog = "pdf" /\ D \in Range(calls)) =>
        LET f == FirstTextPage(doc)
            textFound == /\ ~doc.open_raises
                         /\ f > 0
                         /\ \A j \in 1..(f - 1) : ~doc.pages[j].raises
        IN  /\ pdf_type \in { "native", "scanned" }
            /\ pdf_type = "native" <=> textFound
            /\ pdf_type = "native" => extracts = f
            /\ extracts <= Len(doc.pages)

DetectShortCircuitWitness ==
    /\ prog = "pdf" /\ pc = "native"
    /\ Len(doc.pages) > 1
    /\ doc.pages[1].text # NoText
    /\ doc.pages[2].raises
    /\ pdf_type = "native"
    /\ extracts = 1

\* C6: the process exits 0 only with the extracted text written to the output
\* file; with a missing input it exits non-zero having called nothing; with
\* no text extracted it exits non-zero and writes no file.
InputExists == IF prog = "pdf" THEN doc.exists ELSE img.exists

ExitBehaviour ==
    /\ pc # "exit" => exit_code = -1 /\ ~out_file.written
    /\ pc = "exit" =>
        /\ exit_code \in { 0, 1 }
        /\ exit_code = 0 =>
            /\ ret.kind = "text" /\ ret.text # NoText
            /\ out_file = [written |-> TRUE, text |-> ret.text]
        /\ ~InputExists => exit_code = 1 /\ calls = << >> /\ steps = << >>
        /\ (ret.kind # "text" \/ ret.text = NoText)
           => exit_code = 1 /\ ~out_file.written

ExitBehaviourWitness ==
    /\ prog = "pdf" /\ pc = "exit"
    /\ exit_code = 0
    /\ out_file.written /\ out_file.text = ret.text
    /\ calls = << D, N, S >>

\* C8: a successful native extraction returns the normalized line-joined
\* non-empty page texts in page order, and succeeds whenever some page has
\* text that is not blank and no read fails; a successful OCR extraction
\* returns the normalized line-joined OCR outputs of all pages in page order;
\* a single page with text T gives Normalize(T).
PageOrderConcat ==
    prog = "pdf" =>
        /\ native_ret.kind = "text" =>
            /\ native_ret.text =
                   Normalize(Join(<< "\n" >>, SelectSeq(PageTextsOf(doc), IsText)))
            /\ Words(native_ret.text) = WordsOfAll(PageTextsOf(doc))
            /\ Len(doc.pages) = 1 => native_ret.text = Normalize(doc.pages[1].text)
        /\ (/\ N \in Range(calls)
            /\ ~doc.open_raises /\ ~PageRaises(doc)
            /\ \E i \in 1..Len(doc.pages) : Strip(doc.pages[i].text) # NoText)
           => native_ret.kind = "text"
        /\ ocr_ret.kind = "text" =>
            /\ ocr_ret.text = Normalize(Join(<< "\n" >>, ScanTextsOf(doc)))
            /\ Words(ocr_ret.text) = WordsOfAll(ScanTextsOf(doc))
            /\ Len(doc.scans) = 1 => ocr_ret.text = Normalize(doc.scans[1].text)

PageOrderConcatWitness ==
    /\ prog = "pdf" /\ pc = "after"
    /\ Len(doc.pages) > 1
    /\ doc.pages[1].text = << "e" >>
    /\ doc.pages[2].text = << "k", " ", "\n", "k" >>
    /\ native_ret = Text(<< "e", " ", "k", " ", "k" >>)

\* C9: detection comes first and once; native extraction is tried at most
\* once and only for a document classified native; OCR is tried at most once
\* and only after a scanned classification or a failed native attempt;
\* nothing is tried after OCR or after a success.
FallbackOrdering ==
    prog = "pdf" =>
        /\ calls \in { << >>, << D >>, << D, N >>, << D, S >>, << D, N, S >> }
        /\ Returned /\ doc.exists => Len(calls) > 1
        /\ N \in Range(calls) => pdf_type = "native"
        /\ calls = << D, S >> => pdf_type = "scanned"
        /\ calls = << D, N, S >> => native_ret.kind = "raise"
        /\ native_ret.kind = "text" => calls = << D, N >> /\ ocr_ret = Pending

FallbackOrderingWitness ==
    /\ prog = "pdf" /\ pc = "exit"
    /\ calls = << D, N, S >>
    /\ native_ret.kind = "raise"
    /\ ocr_ret.kind = "raise"

\* C10: the image program runs no detection and no native extraction; OCR is
\* called only after every preprocessing step has completed; when
\* preprocessing fails OCR is not called and parse_image returns None.
ImagePath ==
    prog = "image" =>
        /\ Range(calls) \subseteq { P, X }
        /\ X \in Range(calls) =>
            /\ calls = << P, X >>
            /\ steps = PreprocessSteps
            /\ img.fail_at = "-"
        /\ Returned /\ img.exists /\ img.fail_at # "-" =>
            /\ calls = << P >>
            /\ ocr_ret = Pending
            /\ ret = None
        /\ Returned /\ img.exists => ret.kind \in { "text", "none" }

ImagePathWitness ==
    /\ prog = "image" /\ pc = "after"
    /\ img.fail_at = "threshold"
    /\ img.scan.kind = "text" /\ img.scan.text # NoText
    /\ steps = << "open", "grayscale", "contrast" >>
    /\ ret = None

=============================================================================
